---- MODULE Spec2Model ----
(***************************************************************************)
(* Model of the fashion-ai-demo backend (src/server.js and its later       *)
(* revision src/unnamed/part_000): the Key Rotator (getNextKey), the       *)
(* Completion Requester (callGemini) and the two request handlers          *)
(* (/api/complete, /api/feedback) running against a Redis store.           *)
(*                                                                         *)
(* A JavaScript string is a sequence of one-character strings; the two     *)
(* full-width characters of the tokenizer's regular expression are written *)
(* "U+FF0C" and "U+3002".  A JavaScript value is a record [t, v]: t is its *)
(* type and v a sequence (the characters of a string, the items of an      *)
(* array).  A handler runs atomically between two of its awaits on a       *)
(* store or upstream call: node runs one callback at a time.               *)
(***************************************************************************)
EXTENDS Integers, Sequences, FiniteSets, TLC

\* ---------------------------------------------------------------- bounds
\* Longest request text of the tokenizer runs (SpecTok).
MaxLen == 2
\* Requests started in one run.
MaxRequests == 3
\* Largest credential pool.
MaxKeys == 2

\* --------------------------------------------------------- JavaScript values
Undefined == [t |-> "undefined", v |-> <<>>]
Null == [t |-> "null", v |-> <<>>]
Str(s) == [t |-> "string", v |-> s]
\* A number, by its digits.
Num(digits) == [t |-> "number", v |-> digits]
\* The cursor of a request: an integer, or Undefined.
Cursor(n) == [t |-> "number", n |-> n]
Arr(items) == [t |-> "array", v |-> items]
Obj == [t |-> "object", v |-> <<>>]

\* !x
Falsy(x) ==
    \/ x.t \in {"undefined", "null"}
    \/ x.t = "string" /\ x.v = <<>>
    \/ x.t = "number" /\ x.v = <<"0">>

\* x.length, the value that x.length > 0 compares: a number for a string or an
\* array, undefined (here -1, never > 0) for an object or a number.  Reading
\* it off null or undefined throws, see HasLength.
LengthOf(x) == IF x.t \in {"string", "array"} THEN Len(x.v) ELSE -1
HasLength(x) == x.t \notin {"null", "undefined"}

\* ------------------------------------------------------------------ strings
WhiteSpace == {" ", "\t", "\n"}
\* The character class of the tokenizer's regular expression
Separators == WhiteSpace \cup {",", "U+FF0C", ".", "U+3002"}

RECURSIVE TrimStart(_)
TrimStart(s) ==
    IF s # <<>> /\ Head(s) \in WhiteSpace THEN TrimStart(Tail(s)) ELSE s

RECURSIVE TrimEnd(_)
TrimEnd(s) ==
    IF s # <<>> /\ s[Len(s)] \in WhiteSpace
    THEN TrimEnd(SubSeq(s, 1, Len(s) - 1)) ELSE s

\* String.prototype.trim
Trim(s) == TrimEnd(TrimStart(s))

\* String.prototype.slice(0, end): end undefined is the length, a negative
\* end counts from the end.
Slice0(s, end) ==
    LET n == Len(s)
        e == IF end.t = "undefined" THEN n
             ELSE IF end.n < 0 THEN (IF n + end.n < 0 THEN 0 ELSE n + end.n)
             ELSE IF end.n > n THEN n ELSE end.n
    IN  SubSeq(s, 1, e)

\* String.prototype.split on a separator that matches one or more characters
\* of seps when runs, exactly one of them otherwise: the pieces between
\* the matches, empty pieces at either end included.
RECURSIVE SplitFrom(_, _, _, _, _)
SplitFrom(s, i, cur, seps, runs) ==
    IF i > Len(s) THEN <<cur>>
    ELSE IF s[i] \in seps
         THEN IF runs /\ i > 1 /\ s[i - 1] \in seps
              THEN SplitFrom(s, i + 1, cur, seps, runs)
              ELSE <<cur>> \o SplitFrom(s, i + 1, <<>>, seps, runs)
         ELSE SplitFrom(s, i + 1, Append(cur, s[i]), seps, runs)

WordsUntrimmed(textBeforeCursor) ==
    SplitFrom(textBeforeCursor, 1, <<>>, Separators, TRUE)
\* textBeforeCursor.trim().split(regex)
Words(textBeforeCursor) == SplitFrom(Trim(textBeforeCursor), 1, <<>>, Separators, TRUE)

\* words[words.length - 1]
LastWord(textBeforeCursor) ==
    LET words == Words(textBeforeCursor) IN words[Len(words)]

LowerChar(c) == IF c = "A" THEN "a" ELSE IF c = "B" THEN "b" ELSE c
\* String.prototype.toLowerCase
ToLowerCase(s) == [i \in 1..Len(s) |-> LowerChar(s[i])]

\* The key "autofill:" + lastWord.toLowerCase()
CacheKey(word) == <<"autofill:">> \o ToLowerCase(word)
KeyInCacheNamespace(word) == <<"autofill:">> \o word.v
\* The key "dict:" + word: the template renders a number by its digits
DictKey(word) == <<"dict:">> \o word.v

\* --------------------------------------------------------------------- JSON
RECURSIVE Join(_)
Join(items) ==
    IF items = <<>> THEN <<>>
    ELSE IF Len(items) = 1 THEN <<items[1]>>
    ELSE <<items[1], ",">> \o Join(Tail(items))

\* JSON.stringify of a parsed answer
JSONstringify(x) ==
    CASE x.t = "array" -> <<"[">> \o Join(x.v) \o <<"]">>
      [] x.t = "string" -> <<"\"">> \o x.v \o <<"\"">>
      [] x.t = "null" -> <<"null">>
      [] x.t = "object" -> <<"{", "}">>
      [] OTHER -> <<"?">>

\* The items of a comma-separated list, or <<"!">> when it is not one.
RECURSIVE Items(_)
Items(toks) ==
    IF toks = <<>> THEN <<>>
    ELSE IF Head(toks) \in {",", "[", "]", "{", "}"} THEN <<"!">>
    ELSE IF Len(toks) = 1 THEN <<toks[1]>>
    ELSE IF toks[2] # "," \/ Len(toks) = 2 THEN <<"!">>
    ELSE LET rest == Items(SubSeq(toks, 3, Len(toks)))
         IN  IF rest = <<"!">> THEN rest ELSE <<toks[1]>> \o rest

\* Whether JSON.parse accepts the text (it throws a SyntaxError otherwise):
\* null, an empty object, a string between double quotes, or an array.
JSONvalid(toks) ==
    \/ toks = <<"null">>
    \/ toks = <<"{", "}">>
    \/ /\ Len(toks) >= 2
       /\ toks[1] = "\""
       /\ toks[Len(toks)] = "\""
       /\ \A i \in 2..(Len(toks) - 1) : toks[i] # "\""
    \/ /\ Len(toks) >= 2
       /\ toks[1] = "["
       /\ toks[Len(toks)] = "]"
       /\ Items(SubSeq(toks, 2, Len(toks) - 1)) # <<"!">>

\* JSON.parse of an accepted text
JSONparse(toks) ==
    IF toks = <<"null">> THEN Null
    ELSE IF toks = <<"{", "}">> THEN Obj
    ELSE IF toks[1] = "\"" THEN Str(SubSeq(toks, 2, Len(toks) - 1))
    ELSE Arr(Items(SubSeq(toks, 2, Len(toks) - 1)))

\* The code-fence markers (three backquotes, with or without json; here the
\* characters "<fence json>" and "<fence>") are removed, then rawText is trimmed.
Unfence(rawText) ==
    Trim(SelectSeq(rawText, LAMBDA c : c \notin {"<fence json>", "<fence>"}))

UpperChar(c) == IF c = "a" THEN "A" ELSE IF c = "b" THEN "B" ELSE IF c = "s" THEN "S" ELSE c
\* String.prototype.toUpperCase
ToUpperCase(s) == [i \in 1..Len(s) |-> UpperChar(s[i])]

\* -------------------------------------------------------------------- state
VARIABLES
    redis,            \* whether REDIS_URL is set: the handle redis is defined
    apiKeys,          \* the credential pool
    currentKeyIndex,  \* the rotation cursor
    store,            \* the Redis key space: key -> [val, ttl], and whether the
                      \* lookup that wrote the entry was outdated
    req,              \* the request of each slot: its handler's position and locals
    started,          \* requests started so far
    last,             \* the response sent last, when it acknowledged a feedback
    drawn             \* the cursor positions getNextKey handed out, in call order

vars == <<redis, apiKeys, currentKeyIndex, store, req, started, last, drawn>>

\* Request slots: the handlers that may be between two awaits at once.
Reqs == {1, 2}

\* The expiry of setex, in seconds.
CacheTTL == 3600

NoResponse == [status |-> 0, tag |-> "none", val |-> Undefined]
NoFeedback == [kind |-> "none", word |-> Undefined]
\* The response of the framework's default error handler
UnhandledError == [status |-> 500, tag |-> "html", val |-> Str(<<"TypeError">>)]

Idle ==
    [kind |-> "none", pc |-> "idle",
     textBeforeCursor |-> <<>>, lastWord |-> <<>>, season |-> Undefined,
     word |-> Undefined, apiKey |-> Null, suggestions |-> Undefined,
     resp |-> NoResponse,
     \* what the request has done so far
     reads |-> 0, writes |-> 0, sets |-> 0, dels |-> 0,
     calls |-> <<>>, outs |-> <<>>, invoked |-> FALSE, hit |-> FALSE,
     keyIndex |-> -1, after |-> NoFeedback, failed |-> "none",
     \* whether a feedback has deleted the cache key of this lookup since its
     \* model call was issued
     outdated |-> FALSE]

\* process.env.GEMINI_API_KEYS ? process.env.GEMINI_API_KEYS.split(",") : []
SplitKeys(env) ==
    IF Falsy(env) THEN <<>> ELSE SplitFrom(env.v, 1, <<>>, {","}, FALSE)

Credential(i) == IF i % 2 = 1 THEN <<" ", "k">> ELSE <<"q">>
RECURSIVE KeyList(_)
KeyList(n) ==
    IF n = 0 THEN <<>>
    ELSE IF n = 1 THEN Credential(1)
    ELSE KeyList(n - 1) \o <<",">> \o Credential(n)

\* The values of GEMINI_API_KEYS: unset, lists of 0..MaxKeys credentials, and
\* a list with a trailing comma.
KeyEnvs ==
    {Undefined, Str(<<"k", ",">>)} \cup {Str(KeyList(n)) : n \in 0..MaxKeys}

Init ==
    /\ redis \in BOOLEAN
    /\ \E env \in KeyEnvs : apiKeys = SplitKeys(env)
    /\ currentKeyIndex = 0
    /\ store = [k \in {} |-> [val |-> <<>>, ttl |-> 0, outdated |-> FALSE]]
    /\ req = [r \in Reqs |-> Idle]
    /\ started = 0
    /\ last = NoFeedback
    /\ drawn = <<>>

\* ------------------------------------------------------------- Key Rotator
NextIndexStuck(i, n) == i
\* (currentKeyIndex + 1) % apiKeys.length
NextIndex(i, n) == (i + 1) % n

GetSomeKey(index) ==
    IF Len(apiKeys) = 0
    THEN [key |-> Str(<<"k">>), next |-> index, drew |-> FALSE]
    ELSE [key |-> Str(Trim(apiKeys[index + 1])),
          next |-> NextIndex(index, Len(apiKeys)), drew |-> TRUE]
\* getNextKey: the key handed out and the cursor it leaves.
GetNextKey(index) ==
    IF Len(apiKeys) = 0
    THEN [key |-> Null, next |-> index, drew |-> FALSE]
    ELSE [key |-> Str(Trim(apiKeys[index + 1])),
          next |-> NextIndex(index, Len(apiKeys)), drew |-> TRUE]

\* ------------------------------------------------------------- responses
\* res.json(...) / res.status(...).json(...): the handler is over.
Respond(rec, status, tag, val) ==
    [rec EXCEPT !.pc = "done", !.resp = [status |-> status, tag |-> tag, val |-> val]]

\* The catch block of /api/complete
InternalError(rec) == Respond(rec, 500, "error", Str(<<"Internal Server Error">>))
\* The awaited store call op rejects.
Rejected(rec, op) == [rec EXCEPT !.failed = op]
WriteIgnored(rec) == Respond(rec, 200, "success", Str(<<"Learned: ">> \o rec.word.v))
\* The catch block of /api/feedback
WriteFailed(rec) == Respond(rec, 500, "error", Str(<<"Redis Write Failed">>))

\* ------------------------------------------------------ Completion Requester
PrimaryModel == "gemini-3-pro-preview"
SecondaryModel == "gemini-2.5-pro"

\* userContext && userContext.season: a context without season, or no
\* context, is the season Undefined.
HasSeason(season) == ~Falsy(season)
\* userContext.season.toUpperCase() throws a TypeError unless season is a string.
SeasonThrows(season) == HasSeason(season) /\ season.t # "string"

\* The instruction: the parts of the template that depend on the inputs.
Prompt(rec) ==
    [context |-> IF HasSeason(rec.season) THEN ToUpperCase(rec.season.v) ELSE <<>>,
     sentence |-> rec.textBeforeCursor,
     trigger |-> rec.lastWord]

\* What axios.post and the read of candidates[0].content.parts[0].text give:
\* a rejection (non-2xx, network error, no candidate) or the answer text.
Failure == [ok |-> FALSE, text |-> <<>>]
Answer(text) == [ok |-> TRUE, text |-> text]
Outcomes ==
    {Failure,
     Answer(<<"[", "s1", "]">>),
     Answer(<<"<fence json>", "\n", "[", "s1", ",", "s2", "]", "\n", "<fence>">>),
     Answer(<<"[", "]">>),
     Answer(<<"[", "s1">>),
     Answer(<<"null">>),
     Answer(<<"{", "}">>),
     Answer(<<"\"", "s", "\"">>)}

SendAlwaysFails(out) == TRUE
\* sendRequest throws: the call was rejected or JSON.parse refuses the text.
SendFails(out) == ~out.ok \/ ~JSONvalid(Unfence(out.text))
\* What sendRequest returns otherwise.
SendValue(out) == JSONparse(Unfence(out.text))

IssueWithKeyAtCursor(rec, model, pc) ==
    [rec EXCEPT !.pc = pc,
                !.calls = Append(@, [model |-> model,
                                     key |-> Trim(apiKeys[currentKeyIndex + 1]),
                                     prompt |-> Prompt(rec)])]
\* axios.post(...) for a model: the request is on its way.
Issue(rec, model, pc) ==
    [rec EXCEPT !.pc = pc,
                !.calls = Append(@, [model |-> model, key |-> rec.apiKey.v,
                                     prompt |-> Prompt(rec)])]

\* ------------------------------------------------------------ /api/complete
CacheAlways(suggestions) == redis
\* redis && suggestions.length > 0
ShouldCache(suggestions) == redis /\ LengthOf(suggestions) > 0

\* Lines 141-145: the handler once callGemini has returned suggestions.
\* The length of null cannot be read: the TypeError lands in the catch block.
Deliver(rec, suggestions) ==
    LET r1 == [rec EXCEPT !.suggestions = suggestions]
    IN  IF redis /\ ~HasLength(suggestions) THEN InternalError(r1)
        ELSE IF ShouldCache(suggestions)
             THEN [r1 EXCEPT !.pc = "setex", !.writes = @ + 1]
             ELSE Respond(r1, 200, "suggestions", suggestions)

\* callGemini up to its first await, and the handler after it when callGemini
\* returns at once.  Gives the request and the cursor.
CallGemini(rec, index) ==
    LET k == GetNextKey(index)
        r1 == [rec EXCEPT !.invoked = TRUE, !.apiKey = k.key,
                          !.keyIndex = IF k.drew THEN index ELSE -1]
    IN  [next |-> k.next,
         drew |-> k.drew,
         rec |-> IF Falsy(k.key) THEN Deliver(r1, Arr(<<>>))
                 ELSE IF SeasonThrows(rec.season) THEN InternalError(r1)
                 ELSE Issue(r1, PrimaryModel, "primary")]

\* The request of slot r moves to rec, the other requests are those of
\* others; the cursor moves to index.
CommitAmong(others, r, rec, index, drew) ==
    /\ req' = [others EXCEPT ![r] = rec]
    /\ currentKeyIndex' = index
    /\ drawn' = IF drew THEN Append(drawn, currentKeyIndex) ELSE drawn
    /\ last' = IF rec.resp # NoResponse
               THEN IF rec.kind = "feedback" /\ rec.resp.status = 200
                    THEN [kind |-> "feedback", word |-> rec.word]
                    ELSE NoFeedback
               ELSE last

Commit(r, rec, index, drew) == CommitAmong(req, r, rec, index, drew)

Free(r) == req[r].pc \in {"idle", "done", "crashed"}
\* A new request takes the first free slot.
FirstFree(r) == Free(r) /\ \A q \in Reqs : q < r => ~Free(q)

SkipNothing(lastWord) == FALSE
\* !lastWord
NoLastWord(lastWord) == lastWord = <<>>

\* POST /api/complete arrives: the handler up to its first await.
StartComplete(r, text, cursor, season) ==
    /\ FirstFree(r)
    /\ started < MaxRequests
    /\ started' = started + 1
    /\ UNCHANGED <<redis, apiKeys, store>>
    /\ IF text.t # "string"
       THEN \* text.slice is not a function: thrown before the try block, the
            \* promise of the handler rejects.  An express that does not
            \* watch that promise sends nothing; one that does hands the
            \* error to its default error handler.
            \E watched \in BOOLEAN :
                Commit(r, [Idle EXCEPT !.kind = "complete", !.pc = "crashed",
                                       !.after = last,
                                       !.resp = IF watched THEN UnhandledError
                                                ELSE NoResponse],
                       currentKeyIndex, FALSE)
       ELSE LET textBeforeCursor == Slice0(text.v, cursor)
                lastWord == LastWord(textBeforeCursor)
                r0 == [Idle EXCEPT !.kind = "complete",
                                   !.textBeforeCursor = textBeforeCursor,
                                   !.lastWord = lastWord,
                                   !.season = season,
                                   !.after = last]
            IN  IF NoLastWord(lastWord)
                THEN Commit(r, Respond(r0, 200, "suggestions", Arr(<<>>)),
                            currentKeyIndex, FALSE)
                ELSE IF redis
                     THEN Commit(r, [r0 EXCEPT !.pc = "get", !.reads = @ + 1],
                                 currentKeyIndex, FALSE)
                     ELSE LET c == CallGemini(r0, currentKeyIndex)
                          IN  Commit(r, c.rec, c.next, c.drew)

ServeRaw(rec, cachedResult) ==
    Respond([rec EXCEPT !.hit = TRUE], 200, "suggestions", Str(cachedResult))
\* return res.json({ suggestions: JSON.parse(cachedResult) }); a text that
\* JSON.parse refuses lands in the catch block.
ServeCached(rec, cachedResult) ==
    IF JSONvalid(cachedResult)
    THEN Respond([rec EXCEPT !.hit = TRUE], 200, "suggestions", JSONparse(cachedResult))
    ELSE InternalError([rec EXCEPT !.hit = TRUE])

HitUnlessUndefined(cachedResult) == TRUE
\* if (cachedResult): redis.get gave a non-empty string, not null
IsHit(cachedResult) == cachedResult # <<>>

\* redis.get(cacheKey) settles.
GetReturn(r, ok) ==
    /\ req[r].pc = "get"
    /\ UNCHANGED <<redis, apiKeys, store, started>>
    /\ LET rec == req[r]
           key == CacheKey(rec.lastWord)
           cachedResult == IF key \in DOMAIN store THEN store[key].val ELSE <<>>
       IN  IF ~ok
           THEN Commit(r, InternalError(Rejected(rec, "get")), currentKeyIndex, FALSE)
           ELSE IF IsHit(cachedResult)
                THEN Commit(r, ServeCached(rec, cachedResult), currentKeyIndex, FALSE)
                ELSE LET c == CallGemini(rec, currentKeyIndex)
                     IN  Commit(r, c.rec, c.next, c.drew)

\* The call to the primary model settles.
PrimaryReturn(r, out) ==
    /\ req[r].pc = "primary"
    /\ UNCHANGED <<redis, apiKeys, store, started>>
    /\ LET rec == [req[r] EXCEPT !.outs = Append(@, out)]
       IN  IF SendFails(out)
           THEN Commit(r, Issue(rec, SecondaryModel, "fallback"), currentKeyIndex, FALSE)
           ELSE Commit(r, Deliver(rec, SendValue(out)), currentKeyIndex, FALSE)

\* The call to the secondary model settles.
FallbackReturn(r, out) ==
    /\ req[r].pc = "fallback"
    /\ UNCHANGED <<redis, apiKeys, store, started>>
    /\ LET rec == [req[r] EXCEPT !.outs = Append(@, out)]
       IN  IF SendFails(out)
           THEN Commit(r, Deliver(rec, Arr(<<>>)), currentKeyIndex, FALSE)
           ELSE Commit(r, Deliver(rec, SendValue(out)), currentKeyIndex, FALSE)

\* redis.setex(cacheKey, 3600, JSON.stringify(suggestions)) settles.
SetexReturn(r, ok) ==
    /\ req[r].pc = "setex"
    /\ UNCHANGED <<redis, apiKeys, started>>
    /\ LET rec == req[r]
       IN  IF ok
           THEN /\ store' = (CacheKey(rec.lastWord) :>
                                [val |-> JSONstringify(rec.suggestions), ttl |-> CacheTTL,
                                 outdated |-> rec.outdated])
                             @@ store
                /\ Commit(r, Respond(rec, 200, "suggestions", rec.suggestions),
                          currentKeyIndex, FALSE)
           ELSE /\ store' = store
                /\ Commit(r, InternalError(Rejected(rec, "setex")), currentKeyIndex, FALSE)

\* An entry written with an expiry runs out.
Expire(key) ==
    /\ key \in DOMAIN store
    /\ store[key].ttl > 0
    /\ store' = [k \in DOMAIN store \ {key} |-> store[k]]
    /\ UNCHANGED <<redis, apiKeys, currentKeyIndex, req, started, last, drawn>>

\* ------------------------------------------------------------ /api/feedback
\* JSON.stringify({ word, category, addedAt: new Date() })
DictEntry(word) ==
    <<"{", "word:">> \o word.v \o <<",", "category:", "c", ",", "addedAt:", "now", "}">>

AcceptAnything(word) == FALSE
\* !word || !redis
InvalidRequest(word) == Falsy(word) \/ ~redis

\* POST /api/feedback arrives: the handler up to its first await.
StartFeedback(r, word) ==
    /\ FirstFree(r)
    /\ started < MaxRequests
    /\ started' = started + 1
    /\ UNCHANGED <<redis, apiKeys, store>>
    /\ LET r0 == [Idle EXCEPT !.kind = "feedback", !.word = word,
                              !.after = last]
       IN  IF InvalidRequest(word)
           THEN Commit(r, Respond(r0, 400, "error", Str(<<"Invalid request">>)),
                       currentKeyIndex, FALSE)
           ELSE Commit(r, [r0 EXCEPT !.pc = "set", !.sets = @ + 1],
                       currentKeyIndex, FALSE)

\* redis.set(key, ...) settles; word.toLowerCase() throws a TypeError unless
\* word is a string.
SetReturn(r, ok) ==
    /\ req[r].pc = "set"
    /\ UNCHANGED <<redis, apiKeys, started>>
    /\ LET rec == req[r]
       IN  IF ok
           THEN /\ store' = (DictKey(rec.word) :>
                                [val |-> DictEntry(rec.word), ttl |-> 0, outdated |-> FALSE])
                             @@ store
                /\ IF rec.word.t = "string"
                   THEN Commit(r, [rec EXCEPT !.pc = "del", !.dels = @ + 1],
                               currentKeyIndex, FALSE)
                   ELSE Commit(r, WriteFailed(rec), currentKeyIndex, FALSE)
           ELSE /\ store' = store
                /\ Commit(r, WriteFailed(Rejected(rec, "set")), currentKeyIndex, FALSE)

\* The requests once the entry at key is deleted: a lookup of that key whose
\* model call is under way, or has answered, holds suggestions from before
\* the deletion.
Outdate(key) ==
    [q \in Reqs |->
        IF /\ req[q].kind = "complete"
           /\ req[q].pc \in {"primary", "fallback", "setex"}
           /\ CacheKey(req[q].lastWord) = key
        THEN [req[q] EXCEPT !.outdated = TRUE]
        ELSE req[q]]

\* redis.del(cacheKey) settles.
DelReturn(r, ok) ==
    /\ req[r].pc = "del"
    /\ UNCHANGED <<redis, apiKeys, started>>
    /\ LET rec == req[r]
       IN  IF ok
           THEN /\ store' = [k \in DOMAIN store \ {CacheKey(rec.word.v)} |-> store[k]]
                /\ CommitAmong(Outdate(CacheKey(rec.word.v)), r,
                               Respond(rec, 200, "success",
                                       Str(<<"Learned: ">> \o rec.word.v)),
                               currentKeyIndex, FALSE)
           ELSE /\ store' = store
                /\ Commit(r, WriteFailed(Rejected(rec, "del")), currentKeyIndex, FALSE)

\* ------------------------------------------------------------------ inputs
Alphabet == {"a", "A", "b", " ", ",", "U+3002"}
RECURSIVE TextsOfLength(_)
TextsOfLength(n) ==
    IF n = 0 THEN {<<>>}
    ELSE {Append(t, c) : t \in TextsOfLength(n - 1), c \in Alphabet}
\* Every text of at most MaxLen characters.
AllTexts == {Str(t) : t \in UNION {TextsOfLength(n) : n \in 0..MaxLen}}
Cursors == {Undefined} \cup {Cursor(n) : n \in (-1)..(MaxLen + 1)}

\* The inputs of the runs with several requests: texts whose last word is
\* "a", "A", "b" or empty.
SomeTexts == {Str(<<"a", ",">>), Str(<<"a">>), Str(<<"A">>), Str(<<"b">>)}
Seasons == {Undefined, Str(<<"s", "s">>), Num(<<"2", "0", "2", "4">>)}
SomeWords == {Undefined, Str(<<"A">>)}
FeedbackWords == SomeWords \cup {Str(<<"a">>), Str(<<>>), Num(<<"7">>)}
SomeOutcomes ==
    {Failure,
     Answer(<<"[", "s1", "]">>),
     Answer(<<"<fence json>", "\n", "[", "s1", ",", "s2", "]", "\n", "<fence>">>),
     Answer(<<"[", "]">>)}

\* -------------------------------------------------------------------- steps
\* An awaited call of a lookup settles.
SettleComplete(r, outs) ==
    \/ \E ok \in BOOLEAN : GetReturn(r, ok)
    \/ \E out \in outs : PrimaryReturn(r, out)
    \/ \E out \in outs : FallbackReturn(r, out)
    \/ \E ok \in BOOLEAN : SetexReturn(r, ok)

\* An awaited call of a feedback settles.
SettleFeedback(r) ==
    \/ \E ok \in BOOLEAN : SetReturn(r, ok)
    \/ \E ok \in BOOLEAN : DelReturn(r, ok)

Settle(r, outs) == SettleComplete(r, outs) \/ SettleFeedback(r)

Next ==
    \/ \E r \in Reqs, text \in SomeTexts :
           StartComplete(r, text, Undefined, Undefined)
    \/ \E r \in Reqs, word \in SomeWords : StartFeedback(r, word)
    \/ \E r \in Reqs : Settle(r, SomeOutcomes)
    \/ \E key \in DOMAIN store : Expire(key)

\* Requests arrive in any interleaving.
Spec == Init /\ [][Next]_vars

\* At most one request is between its arrival and its response.
Sequential == Cardinality({r \in Reqs : ~Free(r)}) <= 1

NextSeq ==
    /\ \/ \E r \in Reqs, text \in SomeTexts \cup {Undefined}, season \in Seasons :
              StartComplete(r, text, Undefined, season)
       \/ \E r \in Reqs, word \in FeedbackWords : StartFeedback(r, word)
       \/ \E r \in Reqs : Settle(r, Outcomes)
       \/ \E key \in DOMAIN store : Expire(key)
    /\ Sequential'
\* Each request arrives after the previous one was answered.
SpecSeq == Init /\ [][NextSeq]_vars

NextTok ==
    \/ \E r \in Reqs, text \in AllTexts, cursor \in Cursors :
           started = 0 /\ StartComplete(r, text, cursor, Undefined)
    \/ \E r \in Reqs : SettleComplete(r, SomeOutcomes)
    \/ \E key \in DOMAIN store : Expire(key)
\* One lookup, of any short text at any cursor.
SpecTok == Init /\ [][NextTok]_vars

\* ------------------------------------------------------------------ claims
Lookups == {r \in Reqs : req[r].kind = "complete"}
EmptyList == [status |-> 200, tag |-> "suggestions", val |-> Arr(<<>>)]
Suggestions(x) == [status |-> 200, tag |-> "suggestions", val |-> x]

\* C1: when redis.get of a lookup gives a value (the key autofill:<lowercased
\* lastWord> holds one at the read), the response is status 200 with exactly
\* the suggestions the cached text encodes, the request has issued no
\* model call and has not invoked the requester, and the step moves neither
\* the credential cursor nor the store.
C1_CacheHitServesCached ==
    [][\A r \in Reqs :
         (req[r].pc = "get" /\ req'[r].hit) =>
            LET key == CacheKey(req[r].lastWord)
            IN  /\ req[r].lastWord # <<>>
                /\ key \in DOMAIN store
                /\ req'[r].pc = "done"
                /\ req'[r].resp.status = 200
                /\ req'[r].resp.tag = "suggestions"
                /\ JSONstringify(req'[r].resp.val) = store[key].val
                /\ req'[r].calls = <<>>
                /\ ~req'[r].invoked
                /\ currentKeyIndex' = currentKeyIndex
                /\ drawn' = drawn
                /\ store' = store]_vars

\* A lookup was answered from the cache with a two-item sequence.
C1_Witness ==
    \E r \in Lookups :
        /\ req[r].hit
        /\ req[r].pc = "done"
        /\ req[r].resp.val = Arr(<<"s1", "s2">>)
        /\ req[r].calls = <<>>

\* C2: a lookup whose redis.get failed still invokes the requester and is
\* answered with status 200, never with an error.
C2_ReadFailureIsMiss ==
    \A r \in Lookups :
        req[r].failed = "get" =>
            /\ req[r].invoked
            /\ req[r].pc = "done" => req[r].resp.status = 200 /\ req[r].resp.tag = "suggestions"

\* C3: a lookup whose model call gave a non-empty result and whose redis.setex
\* failed is answered with status 200 and those suggestions.
C3_WriteFailureStillAnswers ==
    \A r \in Lookups :
        (req[r].failed = "setex" /\ LengthOf(req[r].suggestions) > 0) =>
            req[r].resp = Suggestions(req[r].suggestions)

\* C5: with a pool of K > 0 credentials the cursor stays in 0..K-1, every call
\* of getNextKey hands out the credential at the cursor and moves the cursor
\* on by one modulo K, so any K consecutive calls hand out every position of
\* the pool once, in pool order from the first of them.
C5_RoundRobin ==
    LET K == Len(apiKeys)
    IN  K > 0 =>
          /\ currentKeyIndex \in 0..(K - 1)
          /\ \A i \in 1..Len(drawn) : drawn[i] \in 0..(K - 1)
          /\ \A i \in 1..Len(drawn) :
                 IF i < Len(drawn) THEN drawn[i + 1] = (drawn[i] + 1) % K
                 ELSE currentKeyIndex = (drawn[i] + 1) % K
          /\ \A i \in 1..Len(drawn) :
                 i + K - 1 <= Len(drawn) =>
                    /\ {drawn[i + j] : j \in 0..(K - 1)} = 0..(K - 1)
                    /\ \A j \in 0..(K - 1) : drawn[i + j] = (drawn[i] + j) % K
          /\ \A r \in Reqs :
                 req[r].invoked =>
                    /\ req[r].keyIndex \in 0..(K - 1)
                    /\ req[r].apiKey = Str(Trim(apiKeys[req[r].keyIndex + 1]))

\* A pool of two credentials has been drawn from three times: the cursor
\* has wrapped.
C5_Witness ==
    /\ Len(apiKeys) = 2
    /\ drawn = <<0, 1, 0>>
    /\ currentKeyIndex = 1

\* C4: in a sequential run, the lookup that follows an acknowledged feedback
\* for word W, and whose last word is W up to letter case, is not answered
\* from the cache: it misses and invokes the requester.
C4_FreshAfterFeedback ==
    \A r \in Lookups :
        ( /\ req[r].after.kind = "feedback"
          /\ req[r].lastWord # <<>>
          /\ ToLowerCase(req[r].lastWord) = ToLowerCase(req[r].after.word.v)
          /\ req[r].pc = "done" ) =>
            /\ ~req[r].hit
            /\ req[r].invoked

\* C6: when the primary call failed and the secondary call succeeded, the
\* requester returns the secondary's parsed answer and the lookup responds
\* with it, status 200.
C6_FallbackAnswerServed ==
    \A r \in Lookups :
        ( /\ Len(req[r].outs) = 2
          /\ SendFails(req[r].outs[1])
          /\ ~SendFails(req[r].outs[2])
          /\ req[r].pc # "fallback" ) =>
            /\ req[r].suggestions = SendValue(req[r].outs[2])
            /\ req[r].pc = "done" => req[r].resp = Suggestions(SendValue(req[r].outs[2]))

\* C7: when the secondary call fails after the primary call failed, the
\* lookup is answered at once with status 200 and an empty list, and nothing
\* is written to the store.
C7_BothFailEmptyList ==
    [][\A r \in Reqs :
         ( /\ req[r].pc = "fallback"
           /\ req'[r].pc # "fallback"
           /\ SendFails(req[r].outs[1])
           /\ SendFails(req'[r].outs[2]) ) =>
            /\ req'[r].pc = "done"
            /\ req'[r].resp = EmptyList
            /\ req'[r].writes = 0
            /\ store' = store]_vars

\* After a cache miss, the primary call was rejected and the secondary's
\* answer could not be parsed: the lookup was answered with an empty list.
C7_Witness ==
    \E r \in Lookups :
        /\ redis
        /\ req[r].reads = 1
        /\ Len(req[r].outs) = 2
        /\ ~req[r].outs[1].ok
        /\ req[r].outs[2].ok
        /\ SendFails(req[r].outs[2])
        /\ req[r].resp = EmptyList

\* C8: once the requester has been invoked and is no longer waiting for a
\* model, it has returned a sequence of suggestions to the handler: it has
\* not thrown, and it has not returned a value that is no sequence.
C8_RequesterNeverThrows ==
    \A r \in Lookups :
        (req[r].invoked /\ req[r].pc \notin {"primary", "fallback"}) =>
            req[r].suggestions.t = "array"

\* C9: a lookup whose last word is empty is answered on arrival with an
\* empty list, without a cache read, a cache write, a model call or a move of
\* the credential cursor.
C9_EmptyTokenShortCircuits ==
    [][\A r \in Reqs :
         ( /\ FirstFree(r)
           /\ started' # started
           /\ req'[r].kind = "complete"
           /\ req'[r].pc # "crashed"
           /\ req'[r].lastWord = <<>> ) =>
            /\ req'[r].pc = "done"
            /\ req'[r].resp = EmptyList
            /\ req'[r].reads = 0
            /\ req'[r].writes = 0
            /\ req'[r].calls = <<>>
            /\ ~req'[r].invoked
            /\ currentKeyIndex' = currentKeyIndex
            /\ drawn' = drawn
            /\ store' = store]_vars

\* A lookup of the text "a," was answered with an empty list.
C9_Witness ==
    \E r \in Lookups :
        /\ req[r].textBeforeCursor = <<"a", ",">>
        /\ req[r].lastWord = <<>>
        /\ req[r].resp = EmptyList

Computed == {r \in Lookups : req[r].pc # "crashed"}
Punctuation == Separators \ WhiteSpace
Untouched(r) ==
    /\ req[r].pc = "done"
    /\ req[r].resp = EmptyList
    /\ req[r].reads = 0
    /\ req[r].writes = 0
    /\ req[r].calls = <<>>
    /\ ~req[r].invoked

\* C10 as stated: the last word is the last piece of the text before the
\* cursor split on whitespace and punctuation, so a text that is empty or
\* ends in whitespace or punctuation has an empty last word and is answered
\* with an empty list without cache or model interaction.
C10_LastPieceOfText ==
    \A r \in Computed :
        LET t == req[r].textBeforeCursor
            pieces == SplitFrom(t, 1, <<>>, Separators, TRUE)
        IN  /\ req[r].lastWord = pieces[Len(pieces)]
            /\ (t = <<>> \/ t[Len(t)] \in Separators) =>
                   req[r].lastWord = <<>> /\ Untouched(r)

\* C10 as amended: the last word is the longest separator-free suffix of the
\* trimmed text before the cursor; when the trimmed text is empty or ends in
\* punctuation the last word is empty and the lookup is answered with an empty
\* list without cache or model interaction.
C10_LastPieceOfTrimmedText ==
    \A r \in Computed :
        LET t == Trim(req[r].textBeforeCursor)
            w == req[r].lastWord
            n == Len(t)
            m == Len(w)
        IN  /\ m <= n
            /\ w = SubSeq(t, n - m + 1, n)
            /\ \A i \in 1..m : w[i] \notin Separators
            /\ m < n => t[n - m] \in Separators
            /\ (n = 0 \/ t[n] \in Punctuation) => (w = <<>> /\ Untouched(r))
            /\ (n > 0 /\ t[n] \notin Punctuation) => w # <<>>

\* A lookup of the text ", " (punctuation, then whitespace) was answered
\* with an empty list.
C10_Witness ==
    \E r \in Computed :
        /\ req[r].textBeforeCursor = <<",", " ">>
        /\ req[r].lastWord = <<>>
        /\ Untouched(r)

Feedbacks == {r \in Reqs : req[r].kind = "feedback"}
\* The request that takes slot r arrives in this step.
Arrives(r) == FirstFree(r) /\ started' # started
BadRequest == [status |-> 400, tag |-> "error", val |-> Str(<<"Invalid request">>)]
WriteError == [status |-> 500, tag |-> "error", val |-> Str(<<"Redis Write Failed">>)]

\* C11: a feedback whose word is absent or empty, or that arrives when no
\* store is configured, is answered on arrival with status 400; it issues
\* neither redis.set nor redis.del and the step leaves the store as it was.
C11_InvalidFeedbackRejected ==
    [][\A r \in Reqs :
         ( /\ Arrives(r)
           /\ req'[r].kind = "feedback"
           /\ \/ req'[r].word.t \in {"undefined", "null"}
              \/ req'[r].word = Str(<<>>)
              \/ ~redis ) =>
            /\ req'[r].pc = "done"
            /\ req'[r].resp = BadRequest
            /\ req'[r].sets = 0
            /\ req'[r].dels = 0
            /\ store' = store]_vars

\* With a store configured and holding an entry, a feedback with an empty
\* word was answered 400.
C11_Witness ==
    \E r \in Feedbacks :
        /\ redis
        /\ store # << >>
        /\ req[r].word = Str(<<>>)
        /\ req[r].resp = BadRequest
        /\ req[r].sets = 0

\* C12: in a feedback, redis.del is issued only once redis.set has completed
\* and the entry dict:<word> is in the store; a rejected redis.set or
\* redis.del is answered 500 and never acknowledged; after a rejected
\* redis.set no redis.del is issued; and the acknowledgment is sent only when
\* both have completed: the entry dict:<word> is written and no entry
\* autofill:<lowercased word> is left.
C12_WriteThenDelete ==
    [][\A r \in Reqs :
         req'[r].kind = "feedback" =>
            LET rec == req'[r]
                dict == <<"dict:">> \o rec.word.v
                cache == <<"autofill:">> \o ToLowerCase(rec.word.v)
            IN  /\ rec.dels <= rec.sets
                /\ rec.sets <= 1
                /\ rec.pc = "del" =>
                       rec.sets = 1 /\ rec.failed = "none" /\ dict \in DOMAIN store'
                /\ rec.dels = 1 => rec.failed # "set"
                /\ rec.failed \in {"set", "del"} =>
                       rec.pc = "done" /\ rec.resp = WriteError
                /\ rec.failed = "set" =>
                       rec.dels = 0 /\ (req[r].pc = "set" => store' = store)
                /\ rec.resp.tag = "success" =>
                       /\ rec.resp.status = 200
                       /\ rec.sets = 1 /\ rec.dels = 1 /\ rec.failed = "none"
                       /\ req[r].pc = "del" =>
                              /\ dict \in DOMAIN store'
                              /\ cache \notin DOMAIN store']_vars

\* A feedback for "A" was acknowledged: dict:A is stored and the entry
\* autofill:a that a lookup had written is gone.
C12_Witness ==
    /\ \E r \in Feedbacks :
           /\ req[r].resp.tag = "success"
           /\ req[r].word = Str(<<"A">>)
           /\ <<"dict:", "A">> \in DOMAIN store
    /\ \E r \in Lookups :
           /\ req[r].lastWord = <<"a">>
           /\ req[r].writes = 1
           /\ req[r].resp.status = 200
           /\ <<"autofill:", "a">> \notin DOMAIN store


\* C13: a lookup that arrives right after the acknowledgment of a feedback
\* for its last word is not answered from a cache entry whose suggestions
\* come from a model call issued before that feedback deleted the entry.
C13_NoStaleRepopulation ==
    [][\A r \in Reqs :
         ( /\ req[r].pc = "get"
           /\ req'[r].hit
           /\ req[r].after.kind = "feedback"
           /\ req[r].after.word.t = "string"
           /\ CacheKey(req[r].after.word.v) = CacheKey(req[r].lastWord) ) =>
            ~store[CacheKey(req[r].lastWord)].outdated]_vars


\* The model call out was rejected, or its answer is no JSON text.
Failed(out) == ~out.ok \/ ~JSONvalid(Unfence(out.text))

\* C14: a lookup issues at most one redis.get, then at most two model calls,
\* then at most one redis.setex, in that order: the first call goes to the
\* primary model, the second to the secondary model and only once the
\* primary call has failed; with a store configured no call is issued and
\* the requester is not invoked until redis.get has completed without a hit;
\* redis.setex is issued only once every call has settled.
C14_ReadThenCallsThenWrite ==
    \A r \in Lookups :
        LET rec == req[r]
            n == Len(rec.calls)
        IN  /\ rec.reads <= 1 /\ n <= 2 /\ rec.writes <= 1
            /\ Len(rec.outs) <= n
            /\ n >= 1 => rec.calls[1].model = "gemini-3-pro-preview"
            /\ n = 2 => /\ rec.calls[2].model = "gemini-2.5-pro"
                        /\ Len(rec.outs) >= 1
                        /\ Failed(rec.outs[1])
            /\ rec.pc = "get" =>
                   rec.reads = 1 /\ n = 0 /\ ~rec.invoked /\ rec.writes = 0
            /\ rec.pc = "primary" => n = 1 /\ rec.outs = <<>> /\ rec.writes = 0
            /\ rec.pc = "fallback" => n = 2 /\ Len(rec.outs) = 1 /\ rec.writes = 0
            /\ (redis /\ (rec.invoked \/ n >= 1)) =>
                   rec.reads = 1 /\ rec.pc # "get" /\ ~rec.hit /\ rec.failed # "get"
            /\ rec.hit => n = 0 /\ rec.writes = 0
            /\ ~redis => rec.reads = 0 /\ rec.writes = 0
            /\ rec.writes = 1 =>
                   /\ rec.reads = 1
                   /\ n >= 1
                   /\ Len(rec.outs) = n
                   /\ rec.pc \in {"setex", "done"}

\* A lookup read the cache, called the primary and then the secondary model,
\* wrote the cache and was answered 200.
C14_Witness ==
    \E r \in Lookups :
        /\ req[r].reads = 1
        /\ Len(req[r].calls) = 2
        /\ req[r].writes = 1
        /\ req[r].pc = "done"
        /\ req[r].resp.status = 200

\* callGemini is invoked for the request of slot r in this step.
Invokes(r) ==
    /\ req'[r].kind = "complete"
    /\ req'[r].invoked
    /\ Arrives(r) \/ req[r].pc = "get"

\* C15: with a pool of K > 0 credentials, a step in which callGemini is
\* invoked moves the cursor on by one modulo K and draws one credential, and
\* no other step (a model call settling, a fallback being issued, a store
\* call settling) moves the cursor; the two calls of one invocation carry the
\* same credential, the one drawn at the invocation, and the same instruction.
C15_OneDrawPerInvocation ==
    [][LET K == Len(apiKeys)
       IN  K > 0 =>
             /\ IF \E r \in Reqs : Invokes(r)
                THEN /\ currentKeyIndex' = (currentKeyIndex + 1) % K
                     /\ drawn' = Append(drawn, currentKeyIndex)
                ELSE /\ currentKeyIndex' = currentKeyIndex
                     /\ drawn' = drawn
             /\ \A r \in Reqs :
                    LET calls == req'[r].calls
                    IN  /\ \A i \in 1..Len(calls) :
                               calls[i].key = Trim(apiKeys[req'[r].keyIndex + 1])
                        /\ Len(calls) = 2 =>
                               /\ calls[1].key = calls[2].key
                               /\ calls[1].prompt = calls[2].prompt]_vars

\* With a pool of two credentials, the second invocation drew the second
\* credential and made both calls, after the cursor had wrapped to the first.
C15_Witness ==
    /\ Len(apiKeys) = 2
    /\ drawn = <<0, 1>>
    /\ currentKeyIndex = 0
    /\ \E r \in Lookups :
           /\ req[r].keyIndex = 1
           /\ Len(req[r].calls) = 2
           /\ req[r].calls[2].key = <<"q">>

\* C16: with an empty pool getNextKey returns null and never moves the
\* cursor; a lookup that invokes callGemini issues no model call and is
\* answered in the same step with status 200 and an empty list, nothing
\* being written to the store.  That is the response of a lookup whose two
\* model calls failed.
C16_EmptyPoolEmptyList ==
    /\ Len(apiKeys) = 0 =>
           /\ currentKeyIndex = 0
           /\ drawn = <<>>
           /\ \A r \in Lookups :
                  /\ req[r].calls = <<>>
                  /\ req[r].pc \notin {"primary", "fallback", "setex"}
                  /\ req[r].invoked =>
                         /\ req[r].apiKey = Null
                         /\ req[r].suggestions = Arr(<<>>)
                         /\ req[r].pc = "done"
                         /\ req[r].resp = EmptyList
                         /\ req[r].writes = 0
    /\ \A r \in Lookups :
           ( /\ Len(req[r].outs) = 2
             /\ Failed(req[r].outs[1])
             /\ Failed(req[r].outs[2])
             /\ req[r].pc = "done" ) => req[r].resp = EmptyList

\* With no credential and a store configured, a lookup of "a" missed the
\* cache and was answered with an empty list.
C16_Witness ==
    /\ apiKeys = <<>>
    /\ redis
    /\ \E r \in Lookups :
           /\ req[r].lastWord = <<"a">>
           /\ req[r].reads = 1
           /\ req[r].invoked
           /\ req[r].resp = EmptyList


\* C17: every entry under a key autofill:<token> holds a non-empty sequence
\* of suggestions; an entry appears or changes only when the redis.setex of a
\* lookup whose lowercased last word is <token> completes, and then it holds
\* the parsed answer of that lookup's last model call, which succeeded; a
\* lookup whose requester returned an empty list wrote nothing.
C17_CacheHoldsModelSuggestions ==
    [][/\ \A k \in DOMAIN store' :
             Head(k) = "autofill:" =>
                /\ JSONvalid(store'[k].val)
                /\ JSONparse(store'[k].val).t = "array"
                /\ Len(JSONparse(store'[k].val).v) > 0
                /\ (k \notin DOMAIN store \/ store'[k] # store[k]) =>
                       \E r \in Reqs :
                           LET outs == req[r].outs
                           IN  /\ req[r].kind = "complete"
                               /\ req[r].pc = "setex"
                               /\ req'[r].pc = "done"
                               /\ k = <<"autofill:">> \o ToLowerCase(req[r].lastWord)
                               /\ outs # <<>>
                               /\ ~Failed(outs[Len(outs)])
                               /\ store'[k].val =
                                      JSONstringify(JSONparse(Unfence(outs[Len(outs)].text)))
       /\ \A r \in Reqs :
             (req'[r].kind = "complete" /\ LengthOf(req'[r].suggestions) = 0) =>
                req'[r].writes = 0]_vars


\* The entry at key k is not the same before and after the step.
Changed(k) ==
    IF k \in DOMAIN store /\ k \in DOMAIN store' THEN store'[k] # store[k] ELSE TRUE

\* C18: every key of the store is a dict: key or an autofill: key.  A dict:
\* entry is never removed and never expires, and it is written only by the
\* redis.set of a feedback for the word that follows dict: in its key.  An
\* autofill: entry changes only by the redis.setex of a lookup whose
\* lowercased last word follows autofill: in its key, by the redis.del of a
\* feedback for a word that lowercases to it, or by its expiry.  So a lookup
\* leaves every dict: entry alone and a feedback for W touches dict:<W> and
\* autofill:<lowercased W> only.
C18_DisjointNamespaces ==
    [][\A k \in DOMAIN store \cup DOMAIN store' :
          /\ Head(k) \in {"dict:", "autofill:"}
          /\ Head(k) = "dict:" =>
                 /\ k \in DOMAIN store'
                 /\ store'[k].ttl = 0
                 /\ Changed(k) =>
                        \E r \in Reqs :
                            /\ req[r].kind = "feedback"
                            /\ req[r].pc = "set"
                            /\ req'[r].pc # "set"
                            /\ k = <<"dict:">> \o req[r].word.v
          /\ (Head(k) = "autofill:" /\ Changed(k)) =>
                 \/ \E r \in Reqs :
                        /\ req[r].kind = "complete"
                        /\ req[r].pc = "setex"
                        /\ req'[r].pc = "done"
                        /\ k = <<"autofill:">> \o ToLowerCase(req[r].lastWord)
                        /\ k \in DOMAIN store'
                 \/ \E r \in Reqs :
                        /\ req[r].kind = "feedback"
                        /\ req[r].pc = "del"
                        /\ req'[r].pc = "done"
                        /\ k = <<"autofill:">> \o ToLowerCase(req[r].word.v)
                        /\ k \notin DOMAIN store'
                 \/ /\ k \in DOMAIN store
                    /\ store[k].ttl > 0
                    /\ k \notin DOMAIN store'
                    /\ req' = req]_vars

\* After feedbacks for "A" and "a" and a lookup of "a", the store holds
\* dict:A, dict:a and autofill:a.
C18_Witness ==
    /\ <<"dict:", "A">> \in DOMAIN store
    /\ <<"dict:", "a">> \in DOMAIN store
    /\ <<"autofill:", "a">> \in DOMAIN store


\* C19: lookups are not deduplicated.  A lookup whose redis.get completes
\* and finds no entry invokes callGemini, draws the credential at the cursor
\* and, unless that credential is blank or the season of its context is no
\* string, issues its own call to the primary model, whatever the other
\* requests are doing; and a completed redis.setex
\* leaves under the key the suggestions of the lookup that wrote last.
C19_NoDeduplication ==
    [][\A r \in Reqs :
         /\ ( /\ req[r].pc = "get"
              /\ req'[r].pc # "get"
              /\ req'[r].failed # "get"
              /\ <<"autofill:">> \o ToLowerCase(req[r].lastWord) \notin DOMAIN store ) =>
                /\ req'[r].invoked
                /\ ~req'[r].hit
                /\ Len(apiKeys) > 0 =>
                       /\ drawn' = Append(drawn, currentKeyIndex)
                       /\ req'[r].keyIndex = currentKeyIndex
                       /\ ( /\ Trim(apiKeys[currentKeyIndex + 1]) # <<>>
                            /\ req[r].season.t \in {"undefined", "string"} ) =>
                              /\ req'[r].pc = "primary"
                              /\ Len(req'[r].calls) = 1
         /\ ( /\ req[r].pc = "setex"
              /\ req'[r].pc = "done"
              /\ req'[r].failed # "setex" ) =>
                LET k == <<"autofill:">> \o ToLowerCase(req[r].lastWord)
                IN  /\ k \in DOMAIN store'
                    /\ store'[k].val = JSONstringify(req[r].suggestions)]_vars

\* Two lookups of the token "a" both missed the cache, each drew its own
\* credential of a pool of two and called the model, and both wrote
\* autofill:a: the entry holds the suggestions of the second writer, not
\* those of the first.
C19_Witness ==
    /\ Len(apiKeys) = 2
    /\ \E r, q \in Lookups :
           /\ r # q
           /\ ToLowerCase(req[r].lastWord) = <<"a">>
           /\ ToLowerCase(req[q].lastWord) = <<"a">>
           /\ \A p \in {r, q} :
                  /\ req[p].reads = 1
                  /\ ~req[p].hit
                  /\ Len(req[p].calls) >= 1
                  /\ req[p].writes = 1
                  /\ req[p].resp.status = 200
           /\ req[r].keyIndex = 0
           /\ req[q].keyIndex = 1
           /\ req[r].suggestions # req[q].suggestions
           /\ store[<<"autofill:", "a">>].val = JSONstringify(req[q].suggestions)

\* C20: a request whose handler has run to its end has been sent a
\* response, and a request whose handler is waiting on a store or model call
\* has not been sent one yet (a response ends the handler: none is sent
\* twice).
C20_ExactlyOneResponse ==
    \A r \in Reqs :
        /\ (req[r].kind # "none" /\ Free(r)) => req[r].resp # NoResponse
        /\ ~Free(r) => req[r].resp = NoResponse


====
